---- MODULE Spec2Model ----
(***************************************************************************)
(* LicenseClient (packages/lib/server-only/license/license-client.ts).     *)
(*                                                                         *)
(* The client is a process-wide singleton kept in                          *)
(* globalThis.__documenso_license_client__.  A reconciliation cycle        *)
(* (initialize) loads the license file, seeds the in-memory slot from it,  *)
(* pings the license server, derives a status, swaps the new record into   *)
(* memory and writes it to the file.                                       *)
(*                                                                         *)
(* JavaScript runs one job at a time, so an async function is atomic from  *)
(* one await to the next.  Every action below is one such segment of one   *)
(* call, or the completion of the I/O that call awaits.  Calls interleave  *)
(* at the awaits only.  process.cwd() and console.* are taken to succeed.  *)
(*                                                                         *)
(* Two specifications:                                                     *)
(*   Spec        the file as it stands: pingLicenseServer is the           *)
(*               local-development body of lines 149-175, which never      *)
(*               contacts a server and never rejects;                      *)
(*   SpecServer  the same program with the body of pingLicenseServer that  *)
(*               the file keeps in lines 178-196 (one POST, rejecting on   *)
(*               a transport error, a non-ok status or a malformed         *)
(*               payload) and a server that answers a configured key with  *)
(*               the license the local-development body stands for.  Only  *)
(*               under it is the catch of lines 99-104 reached.            *)
(***************************************************************************)
EXTENDS Naturals, FiniteSets, TLC

\* Number of calls (start, resync, getCachedLicense) the host makes.
NCalls == 3
\* Number of reconciliation cycles that may be in progress at once.
MaxOverlap == 2

Calls == 1..NCalls

VARIABLES
    LICENSE_KEY,      \* env('NEXT_PRIVATE_DOCUMENSO_LICENSE_KEY'), read once
    billingEnabled,   \* IS_BILLING_ENABLED() of the host
    client,           \* globalThis.__documenso_license_client__ (0: unset)
    instances,        \* number of LicenseClient objects constructed
    cachedLicense,    \* this.cachedLicense of each instance
    file,             \* content of the license file
    clock,            \* the instant the next new Date() returns
    netCalls,         \* requests to the license server awaiting an answer
    kind,             \* per call in progress: "start", "resync" or "get"
    pc,               \* per call: the await it is suspended at
    inst,             \* per call in progress: the instance it runs on
    loaded,           \* per cycle: const cachedLicense (line 89)
    response,         \* per cycle: let response (line 95)
    data,             \* per cycle: const data (line 125)
    result,           \* what the latest getCachedLicense to return returned
    outcome,          \* per call: "pending", "returned" or "threw"
    ran,              \* per start call: "cycle" (it ran initialize) or
                      \* "skipped" (it returned at line 42)
    memBefore,        \* per cycle: the memory slot when the cycle began
    solo,             \* per cycle: no other cycle overlapped it so far
    last,             \* the cycle that ended last, if it ran alone and no
                      \* cycle began since
    called,           \* per getCachedLicense call in progress: `last` when
                      \* it was called
    after,            \* the cycle that getCachedLicense was called after:
                      \* `last`, when it was the same at call and return
    writeFailed       \* some write of the file has failed

config == <<LICENSE_KEY, billingEnabled>>

vars == <<LICENSE_KEY, billingEnabled, client, instances, cachedLicense, file,
          clock, netCalls, kind, pc, inst, loaded, response, data, result,
          outcome, ran, memBefore, solo, last, called, after, writeFailed>>

\* ------------------------------------------------------------------ values

\* JavaScript null (also the empty cachedLicense slot).
Null == [null |-> TRUE]

\* env(...) of an unset variable.
Undefined == "undefined"

\* Values env('NEXT_PRIVATE_DOCUMENSO_LICENSE_KEY') can have.
LicenseKeys == {Undefined, "key"}

\* !LICENSE_KEY
Falsy(k) == k \in {Undefined, ""}

\* A Date object, and the string JSON.stringify writes for it (Date.toJSON).
Date(iso) == [repr |-> "Date", iso |-> iso]

ISOString(iso) == [repr |-> "string", iso |-> iso]

MockFlags ==
    [emailDomains |-> TRUE, embedAuthoring |-> TRUE,
     embedAuthoringWhiteLabel |-> TRUE, cfr21 |-> TRUE,
     authenticationPortal |-> TRUE, billing |-> TRUE]

LicenseData(status, key, flags) ==
    [status |-> status,
     createdAt |-> Date("2024-01-01T00:00:00.000Z"),
     name |-> "Enterprise License (Local)",
     periodEnd |-> Date("2030-12-31T00:00:00.000Z"),
     cancelAtPeriodEnd |-> FALSE,
     licenseKey |-> key,
     flags |-> flags]

\* The guard of line 150 left out.
MockResponse_noGuard(key) ==
    [success |-> TRUE, data |-> LicenseData("ACTIVE", key, MockFlags)]

\* What pingLicenseServer resolves to (lines 149-175).
MockResponse(key) ==
    IF Falsy(key) THEN Null
    ELSE [success |-> TRUE, data |-> LicenseData("ACTIVE", key, MockFlags)]

\* response?.data
ResponseData(r) == IF r = Null THEN Null ELSE r.data

\* response?.data?.flags || {}, as the set of the flags that are true.
allowedFlags(r) ==
    LET d == ResponseData(r)
    IN  IF d = Null THEN {} ELSE {k \in DOMAIN d.flags : d.flags[k]}

\* The check of lines 243-245 in place of the bypass: billing enabled on
\* the host and not granted by the license.
checkUnauthorizedFlagUsage_billing(licenseFlags) ==
    billingEnabled /\ "billing" \notin licenseFlags

\* Lines 225-232: the check is bypassed and resolves to false.
checkUnauthorizedFlagUsage(licenseFlags) == FALSE

\* The test of line 121 made before that of line 117, so that the status of
\* the response overrides UNAUTHORIZED.
derivedStatus_statusLast(r, unauthorizedFlagUsage) ==
    IF ResponseData(r) # Null THEN ResponseData(r).status
    ELSE IF unauthorizedFlagUsage THEN "UNAUTHORIZED"
    ELSE "NOT_FOUND"

\* The test of line 121 inverted.
derivedStatus_inverted(r, unauthorizedFlagUsage) ==
    IF ~unauthorizedFlagUsage THEN "UNAUTHORIZED"
    ELSE IF ResponseData(r) # Null THEN ResponseData(r).status
    ELSE "NOT_FOUND"

\* Lines 115-123.
derivedStatus(r, unauthorizedFlagUsage) ==
    IF unauthorizedFlagUsage THEN "UNAUTHORIZED"
    ELSE IF ResponseData(r) # Null THEN ResponseData(r).status
    ELSE "NOT_FOUND"

\* Lines 125-131, with lastChecked the instant new Date() returned.
CachedLicense(t, r, key, unauthorizedFlagUsage) ==
    [lastChecked |-> t,
     license |-> ResponseData(r),
     requestedLicenseKey |-> key,
     unauthorizedFlagUsage |-> unauthorizedFlagUsage,
     derivedStatus |-> derivedStatus(r, unauthorizedFlagUsage)]

\* ------------------------------------------------------------ the file

\* A file that is missing, unreadable, not JSON or not of the schema: the
\* one catch of lines 216-218 reads them all as null.
NoValidFile == [file |-> "none"]

\* A key whose value is undefined is left out by JSON.stringify.
Omitted == "omitted"

\* A serializer that writes an undefined requestedLicenseKey as "".
JSONStringify_emptyKey(rec) ==
    [json |->
        [lastChecked |-> rec.lastChecked,
         license |->
            IF rec.license = Null THEN Null
            ELSE [rec.license EXCEPT
                    !.createdAt = ISOString(@.iso),
                    !.periodEnd = ISOString(@.iso)],
         requestedLicenseKey |->
            IF rec.requestedLicenseKey = Undefined THEN ""
            ELSE rec.requestedLicenseKey,
         unauthorizedFlagUsage |-> rec.unauthorizedFlagUsage,
         derivedStatus |-> rec.derivedStatus]]

\* JSON.stringify(data, null, 2) (line 203): Dates become strings, an
\* undefined requestedLicenseKey is left out.
JSONStringify(rec) ==
    [json |->
        [lastChecked |-> rec.lastChecked,
         license |->
            IF rec.license = Null THEN Null
            ELSE [rec.license EXCEPT
                    !.createdAt = ISOString(@.iso),
                    !.periodEnd = ISOString(@.iso)],
         requestedLicenseKey |->
            IF rec.requestedLicenseKey = Undefined THEN Omitted
            ELSE rec.requestedLicenseKey,
         unauthorizedFlagUsage |-> rec.unauthorizedFlagUsage,
         derivedStatus |-> rec.derivedStatus]]

\* ZCachedLicenseSchema.parse(JSON.parse(fileContents)) on a well-formed
\* record: the dates are coerced back to Date, a missing key reads undefined.
ZCachedLicenseSchemaParse(j) ==
    [lastChecked |-> j.lastChecked,
     license |->
        IF j.license = Null THEN Null
        ELSE [j.license EXCEPT
                !.createdAt = Date(@.iso),
                !.periodEnd = Date(@.iso)],
     requestedLicenseKey |->
        IF j.requestedLicenseKey = Omitted THEN Undefined
        ELSE j.requestedLicenseKey,
     unauthorizedFlagUsage |-> j.unauthorizedFlagUsage,
     derivedStatus |-> j.derivedStatus]

\* Lines 209-219: a missing or invalid file reads as null.
loadFromFileResult(f) ==
    IF "json" \in DOMAIN f THEN ZCachedLicenseSchemaParse(f.json) ELSE Null

\* The record an earlier run of this program, configured with key k, left
\* in the file at instant 0.
PreviousRun(k) == CachedLicense(0, MockResponse(k), k, FALSE)

InitialFiles ==
    {NoValidFile} \cup {JSONStringify(PreviousRun(k)) : k \in LicenseKeys}

\* ------------------------------------------------- settling of promises

\* The write outside any try/catch.
saveToFileSettles_noCatch(ok) == IF ok THEN "resolved" ELSE "rejected"

\* Lines 202-206: the write is inside try/catch.
saveToFileSettles(ok) == "resolved"

\* Lines 49-54: start catches whatever initialize rejects with.
startSettles(initialized) == "returned"

\* Lines 82-84: resync awaits initialize with no catch.
resyncSettles(initialized) ==
    IF initialized = "rejected" THEN "threw" ELSE "returned"

\* Lines 97-104: initialize catches a rejected ping and returns.
pingLicenseServerCaught == "resolved"

Settles(k, initialized) ==
    IF k = "start" THEN startSettles(initialized)
    ELSE resyncSettles(initialized)

\* Lines 63-65: the registered instance (0: null).
getInstance == client

\* ------------------------------------------------------------ the calls

IsCycle(c) == kind[c] \in {"start", "resync"}

InCycle(c) ==
    IsCycle(c) /\ pc[c] \in {"load", "seed", "fetch", "ponged", "write"}

\* Calls are taken in order of their number.
Free(c) == pc[c] = "idle" /\ (IF c = 1 THEN TRUE ELSE pc[c - 1] # "idle")

\* No cycle to speak of.
NoCycle == [cycle |-> "none"]

\* Bookkeeping at the start of a cycle of call c, the memory slot being mem.
BeginCycle(c, mem) ==
    /\ Cardinality({e \in Calls : InCycle(e)}) < MaxOverlap
    /\ memBefore' = [memBefore EXCEPT ![c] = mem]
    /\ solo' = [d \in Calls |->
                  IF d = c THEN ~(\E e \in Calls : InCycle(e))
                  ELSE IF InCycle(d) THEN FALSE ELSE solo[d]]
    /\ last' = NoCycle

\* The end of a cycle of call c: its locals go out of scope, and what it
\* did is kept in `last` when it ran alone.  how is "fallback" (line 103) or
\* "persisted" (line 141); ok tells whether the file was written.
EndCycle(c, how, ok, settled) ==
    /\ pc' = [pc EXCEPT ![c] = "done"]
    /\ outcome' = [outcome EXCEPT ![c] = settled]
    /\ last' = IF solo[c]
               THEN [cycle |-> how, kind |-> kind[c], loaded |-> loaded[c],
                     data |-> data[c], writeOk |-> ok,
                     memBefore |-> memBefore[c]]
               ELSE NoCycle
    /\ loaded' = [loaded EXCEPT ![c] = Null]
    /\ response' = [response EXCEPT ![c] = Null]
    /\ data' = [data EXCEPT ![c] = Null]
    /\ memBefore' = [memBefore EXCEPT ![c] = Null]
    /\ solo' = [solo EXCEPT ![c] = FALSE]
    /\ kind' = [kind EXCEPT ![c] = "none"]
    /\ inst' = [inst EXCEPT ![c] = 0]

\* start without the test of line 41.
start_noGuard(c) ==
    /\ Free(c)
    /\ instances' = instances + 1
    /\ client' = instances + 1
    /\ kind' = [kind EXCEPT ![c] = "start"]
    /\ inst' = [inst EXCEPT ![c] = instances + 1]
    /\ pc' = [pc EXCEPT ![c] = "load"]
    /\ ran' = [ran EXCEPT ![c] = "cycle"]
    /\ BeginCycle(c, cachedLicense[instances + 1])
    /\ UNCHANGED <<config, cachedLicense, file, clock, netCalls, loaded,
                   response, data, result, outcome, called, after,
                   writeFailed>>

\* start without the assignment of line 47.
start_noRegister(c) ==
    /\ Free(c)
    /\ IF client # 0
       THEN /\ pc' = [pc EXCEPT ![c] = "done"]
            /\ outcome' = [outcome EXCEPT ![c] = "returned"]
            /\ ran' = [ran EXCEPT ![c] = "skipped"]
            /\ UNCHANGED <<instances, kind, inst, memBefore, solo, last>>
       ELSE /\ instances' = instances + 1
            /\ kind' = [kind EXCEPT ![c] = "start"]
            /\ inst' = [inst EXCEPT ![c] = instances + 1]
            /\ pc' = [pc EXCEPT ![c] = "load"]
            /\ ran' = [ran EXCEPT ![c] = "cycle"]
            /\ BeginCycle(c, cachedLicense[instances + 1])
            /\ UNCHANGED outcome
    /\ UNCHANGED <<config, client, cachedLicense, file, clock, netCalls,
                   loaded, response, data, result, called, after,
                   writeFailed>>

\* Lines 40-55, to the first await.
start(c) ==
    /\ Free(c)
    /\ IF client # 0
       THEN /\ pc' = [pc EXCEPT ![c] = "done"]
            /\ outcome' = [outcome EXCEPT ![c] = "returned"]
            /\ ran' = [ran EXCEPT ![c] = "skipped"]
            /\ UNCHANGED <<client, instances, kind, inst, memBefore, solo,
                           last>>
       ELSE /\ instances' = instances + 1
            /\ client' = instances + 1
            /\ kind' = [kind EXCEPT ![c] = "start"]
            /\ inst' = [inst EXCEPT ![c] = instances + 1]
            /\ pc' = [pc EXCEPT ![c] = "load"]
            /\ ran' = [ran EXCEPT ![c] = "cycle"]
            /\ BeginCycle(c, cachedLicense[instances + 1])
            /\ UNCHANGED outcome
    /\ UNCHANGED <<config, cachedLicense, file, clock, netCalls, loaded,
                   response, data, result, called, after,
                   writeFailed>>

\* Lines 82-84 and 86-89, to the first await; the host reaches the instance
\* through getInstance().
resync(c) ==
    /\ Free(c)
    /\ client # 0
    /\ kind' = [kind EXCEPT ![c] = "resync"]
    /\ inst' = [inst EXCEPT ![c] = client]
    /\ pc' = [pc EXCEPT ![c] = "load"]
    /\ BeginCycle(c, cachedLicense[client])
    /\ UNCHANGED <<config, client, instances, cachedLicense, file, clock,
                   netCalls, loaded, response, data, result, outcome, ran,
                   called, after,
                   writeFailed>>

\* Lines 67-72, to the await.
getCachedLicense(c) ==
    /\ Free(c)
    /\ client # 0
    /\ IF cachedLicense[client] # Null
       THEN /\ result' = cachedLicense[client]
            /\ pc' = [pc EXCEPT ![c] = "done"]
            /\ outcome' = [outcome EXCEPT ![c] = "returned"]
            /\ after' = last
            /\ UNCHANGED <<kind, inst, called>>
       ELSE /\ kind' = [kind EXCEPT ![c] = "get"]
            /\ inst' = [inst EXCEPT ![c] = client]
            /\ pc' = [pc EXCEPT ![c] = "load"]
            /\ called' = [called EXCEPT ![c] = last]
            /\ UNCHANGED <<result, outcome, after>>
    /\ UNCHANGED <<config, client, instances, cachedLicense, file, clock,
                   netCalls, loaded, response, data, ran, memBefore, solo,
                   last,
                   writeFailed>>

\* getCachedLicense keeping what it read from the file in the memory slot.
loadFromFile_populate(c) ==
    /\ pc[c] = "load"
    /\ IF kind[c] = "get"
       THEN /\ result' = loadFromFileResult(file)
            /\ cachedLicense' =
                 [cachedLicense EXCEPT ![inst[c]] = loadFromFileResult(file)]
            /\ pc' = [pc EXCEPT ![c] = "done"]
            /\ outcome' = [outcome EXCEPT ![c] = "returned"]
            /\ after' = IF called[c] = last THEN last ELSE NoCycle
            /\ called' = [called EXCEPT ![c] = NoCycle]
            /\ kind' = [kind EXCEPT ![c] = "none"]
            /\ inst' = [inst EXCEPT ![c] = 0]
            /\ UNCHANGED loaded
       ELSE /\ loaded' = [loaded EXCEPT ![c] = loadFromFileResult(file)]
            /\ pc' = [pc EXCEPT ![c] = "seed"]
            /\ UNCHANGED <<result, outcome, called, after, kind, inst,
                           cachedLicense>>
    /\ UNCHANGED <<config, client, instances, file, clock, netCalls,
                   response, data, ran, memBefore, solo, last,
                   writeFailed>>

\* Lines 209-219: the read of the file completes, for getCachedLicense
\* (lines 72-74) or for initialize (line 89).
loadFromFile(c) ==
    /\ pc[c] = "load"
    /\ IF kind[c] = "get"
       THEN /\ result' = loadFromFileResult(file)
            /\ pc' = [pc EXCEPT ![c] = "done"]
            /\ outcome' = [outcome EXCEPT ![c] = "returned"]
            /\ after' = IF called[c] = last THEN last ELSE NoCycle
            /\ called' = [called EXCEPT ![c] = NoCycle]
            /\ kind' = [kind EXCEPT ![c] = "none"]
            /\ inst' = [inst EXCEPT ![c] = 0]
            /\ UNCHANGED loaded
       ELSE /\ loaded' = [loaded EXCEPT ![c] = loadFromFileResult(file)]
            /\ pc' = [pc EXCEPT ![c] = "seed"]
            /\ UNCHANGED <<result, outcome, called, after, kind, inst>>
    /\ UNCHANGED <<config, client, instances, cachedLicense, file, clock,
                   netCalls, response, data, ran, memBefore, solo, last,
                   writeFailed>>

\* Line 92 without the test of line 91.
SeedMemory_unconditional(c) ==
    cachedLicense' = [cachedLicense EXCEPT ![inst[c]] = loaded[c]]

\* Lines 91-93: seed the memory slot from the file.
SeedMemory(c) ==
    cachedLicense' =
        IF loaded[c] # Null
        THEN [cachedLicense EXCEPT ![inst[c]] = loaded[c]]
        ELSE cachedLicense

\* Lines 91-98 with the body of pingLicenseServer in lines 149-175, which
\* resolves at once: to the await of line 98.
seed(c) ==
    /\ pc[c] = "seed"
    /\ SeedMemory(c)
    /\ response' = [response EXCEPT ![c] = MockResponse(LICENSE_KEY)]
    /\ pc' = [pc EXCEPT ![c] = "ponged"]
    /\ UNCHANGED <<config, client, instances, file, clock, netCalls, kind,
                   inst, loaded, data, result, outcome, ran, memBefore, solo,
                   last, called, after,
                   writeFailed>>

\* Lines 91-98 with the body of pingLicenseServer in lines 150-152 and
\* 179-187: without a key it resolves to null at once, with one it sends
\* the request.
seedServer(c) ==
    /\ pc[c] = "seed"
    /\ SeedMemory(c)
    /\ IF Falsy(LICENSE_KEY)
       THEN /\ response' = [response EXCEPT ![c] = Null]
            /\ pc' = [pc EXCEPT ![c] = "ponged"]
            /\ UNCHANGED netCalls
       ELSE /\ netCalls' = netCalls + 1
            /\ pc' = [pc EXCEPT ![c] = "fetch"]
            /\ UNCHANGED response
    /\ UNCHANGED <<config, client, instances, file, clock, kind, inst,
                   loaded, data, result, outcome, ran, memBefore, solo, last,
                   called, after,
                   writeFailed>>

\* Lines 193-195 and 98: the server answers and the payload parses.
fetchResolves(c) ==
    /\ pc[c] = "fetch"
    /\ response' = [response EXCEPT ![c] = MockResponse(LICENSE_KEY)]
    /\ netCalls' = netCalls - 1
    /\ pc' = [pc EXCEPT ![c] = "ponged"]
    /\ UNCHANGED <<config, client, instances, cachedLicense, file, clock,
                   kind, inst, loaded, data, result, outcome, ran, memBefore,
                   solo, last, called, after,
                   writeFailed>>

\* The catch of lines 99-104 stamping the cached record with the instant of
\* the failed attempt.
fetchRejects_touch(c) ==
    /\ pc[c] = "fetch"
    /\ netCalls' = netCalls - 1
    /\ cachedLicense' =
         IF cachedLicense[inst[c]] # Null
         THEN [cachedLicense EXCEPT ![inst[c]].lastChecked = clock]
         ELSE cachedLicense
    /\ clock' = clock + 1
    /\ EndCycle(c, "fallback", FALSE,
                Settles(kind[c], pingLicenseServerCaught))
    /\ UNCHANGED <<config, client, instances, file, result, ran, called, after,
                   writeFailed>>

\* The catch of lines 99-104 falling through to a "no license" record.
fetchRejects_notFound(c) ==
    /\ pc[c] = "fetch"
    /\ netCalls' = netCalls - 1
    /\ cachedLicense' =
         IF cachedLicense[inst[c]] = Null
         THEN [cachedLicense EXCEPT
                 ![inst[c]] = CachedLicense(clock, Null, LICENSE_KEY, FALSE)]
         ELSE cachedLicense
    /\ clock' = clock + 1
    /\ EndCycle(c, "fallback", FALSE,
                Settles(kind[c], pingLicenseServerCaught))
    /\ UNCHANGED <<config, client, instances, file, result, ran, called, after,
                   writeFailed>>

\* The catch of lines 99-104 writing a "no license" record to the file.
fetchRejects_save(c) ==
    /\ pc[c] = "fetch"
    /\ netCalls' = netCalls - 1
    /\ file' = JSONStringify(CachedLicense(clock, Null, LICENSE_KEY, FALSE))
    /\ UNCHANGED writeFailed
    /\ clock' = clock + 1
    /\ EndCycle(c, "fallback", FALSE,
                Settles(kind[c], pingLicenseServerCaught))
    /\ UNCHANGED <<config, client, instances, cachedLicense, result, ran,
                   called, after>>

\* A failed cycle taking the instance out of the registry.
fetchRejects_unregister(c) ==
    /\ pc[c] = "fetch"
    /\ netCalls' = netCalls - 1
    /\ client' = 0
    /\ EndCycle(c, "fallback", FALSE,
                Settles(kind[c], pingLicenseServerCaught))
    /\ UNCHANGED <<config, instances, cachedLicense, file, clock, result,
                   ran, called, after,
                   writeFailed>>

\* Lines 181-195 and 99-104: the request fails, the status is not ok or the
\* payload does not parse; initialize logs and returns.
fetchRejects(c) ==
    /\ pc[c] = "fetch"
    /\ netCalls' = netCalls - 1
    /\ EndCycle(c, "fallback", FALSE,
                Settles(kind[c], pingLicenseServerCaught))
    /\ UNCHANGED <<config, client, instances, cachedLicense, file, clock,
                   result, ran, called, after,
                   writeFailed>>

\* Lines 106-134, to the await of the write: policy check, status, the new
\* record, the swap into memory.  Each new Date() is a later instant.
derive(c) ==
    /\ pc[c] = "ponged"
    /\ LET unauthorizedFlagUsage ==
               checkUnauthorizedFlagUsage(allowedFlags(response[c]))
           d == CachedLicense(clock, response[c], LICENSE_KEY,
                              unauthorizedFlagUsage)
       IN  /\ data' = [data EXCEPT ![c] = d]
           /\ cachedLicense' = [cachedLicense EXCEPT ![inst[c]] = d]
    /\ clock' = clock + 1
    /\ pc' = [pc EXCEPT ![c] = "write"]
    /\ UNCHANGED <<config, client, instances, file, netCalls, kind, inst,
                   loaded, response, result, outcome, ran, memBefore, solo,
                   last, called, after,
                   writeFailed>>

\* A failed write putting the record read at line 89 back into memory.
saveToFile_rollback(c) ==
    /\ pc[c] = "write"
    /\ \E ok \in BOOLEAN :
         /\ IF ok THEN file' = JSONStringify(data[c])
                  ELSE file' \in {file, NoValidFile}
         /\ cachedLicense' =
              IF ok THEN cachedLicense
              ELSE [cachedLicense EXCEPT ![inst[c]] = loaded[c]]
         /\ writeFailed' = (writeFailed \/ ~ok)
         /\ EndCycle(c, "persisted", ok,
                     Settles(kind[c], saveToFileSettles(ok)))
    /\ UNCHANGED <<config, client, instances, clock, netCalls, result, ran,
                   called, after>>

\* Lines 199-207 and 136-141: the write completes or fails (a failed write
\* leaves the file as it was, or truncated), and the cycle ends.
saveToFile(c) ==
    /\ pc[c] = "write"
    /\ \E ok \in BOOLEAN :
         /\ IF ok THEN file' = JSONStringify(data[c])
                  ELSE file' \in {file, NoValidFile}
         /\ writeFailed' = (writeFailed \/ ~ok)
         /\ EndCycle(c, "persisted", ok,
                     Settles(kind[c], saveToFileSettles(ok)))
    /\ UNCHANGED <<config, client, instances, cachedLicense, clock, netCalls,
                   result, ran, called, after>>

\* ----------------------------------------------------- specifications

Init ==
    /\ LICENSE_KEY \in LicenseKeys
    /\ billingEnabled \in BOOLEAN
    /\ client = 0
    /\ instances = 0
    /\ cachedLicense = [i \in Calls |-> Null]
    /\ file \in InitialFiles
    /\ clock = 1
    /\ netCalls = 0
    /\ kind = [c \in Calls |-> "none"]
    /\ pc = [c \in Calls |-> "idle"]
    /\ inst = [c \in Calls |-> 0]
    /\ loaded = [c \in Calls |-> Null]
    /\ response = [c \in Calls |-> Null]
    /\ data = [c \in Calls |-> Null]
    /\ result = Null
    /\ outcome = [c \in Calls |-> "pending"]
    /\ ran = [c \in Calls |-> "none"]
    /\ memBefore = [c \in Calls |-> Null]
    /\ solo = [c \in Calls |-> FALSE]
    /\ last = NoCycle
    /\ called = [c \in Calls |-> NoCycle]
    /\ after = NoCycle
    /\ writeFailed = FALSE

Next ==
    \E c \in Calls :
        \/ start(c)
        \/ resync(c)
        \/ getCachedLicense(c)
        \/ loadFromFile(c)
        \/ seed(c)
        \/ derive(c)
        \/ saveToFile(c)

Spec == Init /\ [][Next]_vars

NextServer ==
    \E c \in Calls :
        \/ start(c)
        \/ resync(c)
        \/ getCachedLicense(c)
        \/ loadFromFile(c)
        \/ seedServer(c)
        \/ fetchResolves(c)
        \/ fetchRejects(c)
        \/ derive(c)
        \/ saveToFile(c)

SpecServer == Init /\ [][NextServer]_vars

\* ------------------------------------------------------------ claims

\* derivedStatus is UNAUTHORIZED exactly when unauthorizedFlagUsage is set.
Coherent(rec) ==
    (rec.derivedStatus = "UNAUTHORIZED") <=> rec.unauthorizedFlagUsage

\* C1: the record a cycle has swapped into memory and is writing to the
\* file (the remote contact having succeeded) has derivedStatus UNAUTHORIZED
\* if and only if its unauthorizedFlagUsage is true, whatever the status of
\* the license in it.
C1_UnauthorizedIffFlagUsage ==
    \A c \in Calls :
        pc[c] = "write" =>
            /\ Coherent(data[c])
            /\ cachedLicense[inst[c]] # Null
            /\ Coherent(cachedLicense[inst[c]])

\* A cycle is writing a record whose license the authority reported ACTIVE.
C1_Witness ==
    \E c \in Calls :
        /\ pc[c] = "write"
        /\ data[c].license # Null
        /\ data[c].license.status = "ACTIVE"
        /\ cachedLicense[inst[c]] = data[c]

\* C2: after a cycle that ran alone, found a valid record in the file and
\* could not reach the authority, getCachedLicense() returns that record,
\* equal in every field, lastChecked included.
C2_UnreachableKeepsPriorRecord ==
    (after.cycle = "fallback" /\ after.loaded # Null) => result = after.loaded

\* getCachedLicense() has returned after such a cycle, and the instant of
\* the record it returned is that of the earlier run.
C2_Witness ==
    /\ after.cycle = "fallback"
    /\ after.loaded # Null
    /\ result # Null
    /\ result.lastChecked = 0
    /\ clock > 1

\* C3: after a cycle that ran alone, found no valid file and an empty memory
\* slot and could not reach the authority, getCachedLicense() returns null.
C3_UnreachableNoCacheIsAbsent ==
    (after.cycle = "fallback" /\ after.loaded = Null
        /\ after.memBefore = Null) => result = Null

\* getCachedLicense() has returned after such a cycle.
C3_Witness ==
    /\ after.cycle = "fallback"
    /\ after.loaded = Null
    /\ after.memBefore = Null
    /\ result = Null

\* C4: a start() called when an instance is registered returns at once: it
\* runs no cycle, constructs nothing, sends no request, writes neither the
\* memory slot nor the file, and leaves the registered instance in place.
C4_SecondStartIsNoOp ==
    [][\A c \in Calls :
         (ran[c] = "none" /\ ran'[c] # "none" /\ client # 0) =>
            /\ ran'[c] = "skipped"
            /\ pc'[c] = "done"
            /\ outcome'[c] = "returned"
            /\ ~InCycle(c)'
            /\ UNCHANGED <<client, instances, cachedLicense, file, netCalls,
                           clock>>]_vars

\* A first start() has run its cycle to the end and a second has returned.
C4_Witness ==
    \E c, d \in Calls :
        /\ ran[c] = "cycle"
        /\ pc[c] = "done"
        /\ ran[d] = "skipped"
        /\ instances = 1

\* C5: however start() calls interleave, exactly one of them constructs the
\* instance and runs the first cycle, the others return at line 42: one
\* instance is ever constructed and registered.
C5_OneStartRunsTheCycle ==
    /\ instances <= 1
    /\ client = instances
    /\ Cardinality({c \in Calls : ran[c] = "cycle"}) = instances
    /\ (\E c \in Calls : ran[c] # "none") => instances = 1

\* A second start() has returned while the cycle of the first is running.
C5_Witness ==
    \E c, d \in Calls :
        /\ ran[c] = "cycle"
        /\ InCycle(c)
        /\ ran[d] = "skipped"

\* A step of a getCachedLicense() call: its first segment, or its return.
GetBegins(c) == pc[c] = "idle" /\ pc'[c] # "idle" /\ ran'[c] = "none"
                    /\ kind'[c] # "resync"

GetLoads(c) == pc[c] = "load" /\ kind[c] = "get" /\ pc'[c] = "done"

\* C6: getCachedLicense() returns the memory record when there is one, and
\* otherwise what one load of the file gives (the file's record, or null for
\* a missing or invalid file); no step of it changes the memory slot or the
\* file or sends a request.
C6_GetIsReadOnlyAndTiered ==
    [][\A c \in Calls :
         /\ (GetBegins(c) \/ GetLoads(c)) =>
                UNCHANGED <<cachedLicense, file, netCalls, client>>
         /\ (GetBegins(c) /\ cachedLicense[client] # Null) =>
                (pc'[c] = "done" /\ result' = cachedLicense[client])
         /\ (GetBegins(c) /\ cachedLicense[client] = Null) =>
                (pc'[c] = "load" /\ result' = result)
         /\ GetLoads(c) =>
                result' = IF "json" \in DOMAIN file
                          THEN ZCachedLicenseSchemaParse(file.json)
                          ELSE Null]_vars

\* getCachedLicense() has returned the file's record and the memory slot is
\* still empty.
C6_Witness ==
    /\ client # 0
    /\ cachedLicense[client] = Null
    /\ result # Null
    /\ "json" \in DOMAIN file
    /\ result = ZCachedLicenseSchemaParse(file.json)

C8_FailedSaveKeepsFreshRecord ==
    (after.cycle = "persisted" /\ ~after.writeOk) => result = after.data

\* getCachedLicense() has returned after such a cycle, and what it returned
\* is neither the record the cycle found nor what the file holds.
C8_Witness ==
    /\ after.cycle = "persisted"
    /\ ~after.writeOk
    /\ result = after.data
    /\ result # after.loaded
    /\ result # loadFromFileResult(file)

\* C9: when the flags of the response do not grant billing and the host has
\* billing enabled, the policy check gives true and the record of the cycle
\* has unauthorizedFlagUsage true and derivedStatus UNAUTHORIZED.
C9_BillingNotGrantedIsUnauthorized ==
    \A c \in Calls :
        (pc[c] = "write" /\ billingEnabled
            /\ "billing" \notin allowedFlags(response[c])) =>
                /\ checkUnauthorizedFlagUsage(allowedFlags(response[c]))
                /\ data[c].unauthorizedFlagUsage
                /\ data[c].derivedStatus = "UNAUTHORIZED"

\* C10: with no license key configured the ping resolves to null with no
\* request sent, the cycle goes on to the write, and its record has no
\* license, derivedStatus NOT_FOUND and unauthorizedFlagUsage false.
C10_NoKeyIsNotFound ==
    LICENSE_KEY = Undefined =>
        /\ netCalls = 0
        /\ last.cycle # "fallback"
        /\ \A c \in Calls :
             /\ pc[c] \in {"ponged", "write"} => response[c] = Null
             /\ pc[c] = "write" =>
                    /\ data[c].license = Null
                    /\ data[c].derivedStatus = "NOT_FOUND"
                    /\ data[c].unauthorizedFlagUsage = FALSE

\* Without a key, a cycle that ran alone has written its record.
C10_Witness ==
    /\ LICENSE_KEY = Undefined
    /\ last.cycle = "persisted"
    /\ last.writeOk
    /\ last.data.derivedStatus = "NOT_FOUND"
    /\ file = JSONStringify(last.data)

CycleLoads(c) == pc[c] = "load" /\ IsCycle(c) /\ pc'[c] # "load"

CycleSeeds(c) == pc[c] = "seed" /\ pc'[c] # "seed"

\* C12: the load of a missing or invalid file does not raise and gives null
\* with no effect on memory, file, registry or network; the cycle then goes
\* on to the remote contact with the memory slot as it was, neither seeded
\* nor cleared.
C12_AbsentCacheLoadsAsNull ==
    [][\A c \in Calls :
         /\ (CycleLoads(c) /\ file = NoValidFile) =>
                /\ loaded'[c] = Null
                /\ pc'[c] = "seed"
                /\ outcome'[c] = "pending"
                /\ UNCHANGED <<cachedLicense, file, client, instances,
                               netCalls, clock>>
         /\ (GetLoads(c) /\ file = NoValidFile) =>
                /\ result' = Null
                /\ outcome'[c] = "returned"
                /\ UNCHANGED <<cachedLicense, file, client, instances,
                               netCalls, clock>>
         /\ (CycleSeeds(c) /\ loaded[c] = Null) =>
                /\ cachedLicense' = cachedLicense
                /\ pc'[c] \in {"ponged", "fetch"}
                /\ outcome'[c] = "pending"
                /\ UNCHANGED <<file, client>>]_vars

\* A cycle found no valid file while the memory slot held a record, and has
\* gone on to the remote contact with that record still in the slot.
C12_Witness ==
    \E c \in Calls :
        /\ pc[c] = "ponged"
        /\ loaded[c] = Null
        /\ memBefore[c] # Null
        /\ cachedLicense[inst[c]] = memBefore[c]

\* C13: at most one cycle at a time is between the swap of its record into
\* memory (line 133) and the completion of its write of the file (line 134).
C13_WritesAreSerialized ==
    Cardinality({c \in Calls : pc[c] = "write"}) <= 1

C15_FailedCycleWritesNothing ==
    last.cycle = "fallback" =>
        /\ loadFromFileResult(file) = last.loaded
        /\ (last.loaded = Null <=> file = NoValidFile)

\* Such a cycle has ended while the memory slot held a record newer than
\* the one in the file, and the file still holds the older one.
C15_Witness ==
    /\ last.cycle = "fallback"
    /\ last.memBefore # Null
    /\ last.loaded # Null
    /\ last.memBefore.lastChecked > last.loaded.lastChecked
    /\ loadFromFileResult(file) = last.loaded

\* Responses of the authority, of more statuses than the one the
\* local-development body gives.
AuthorityResponses ==
    {Null} \cup
    {[success |-> TRUE, data |-> LicenseData(s, "key", MockFlags)] :
        s \in {"ACTIVE", "EXPIRED", "PAST_DUE"}}

\* The rule of precedence: unauthorized usage, then the status the authority
\* reported, then NOT_FOUND.
Precedence(unauthorized, r) ==
    CASE unauthorized -> "UNAUTHORIZED"
      [] ~unauthorized /\ r # Null -> r.data.status
      [] ~unauthorized /\ r = Null -> "NOT_FOUND"

\* C16: the record a cycle has built has the derivedStatus the rule
\* of precedence gives for the result of its policy check and its response;
\* and so has the record lines 115-131 build from any response and any
\* result of the policy check.
C16_StatusFollowsPrecedence ==
    /\ \A c \in Calls :
         pc[c] = "write" =>
            data[c].derivedStatus =
                Precedence(
                    checkUnauthorizedFlagUsage(allowedFlags(response[c])),
                    response[c])
    /\ \A r \in AuthorityResponses, u \in BOOLEAN :
         CachedLicense(clock, r, LICENSE_KEY, u).derivedStatus =
             Precedence(u, r)

\* A cycle whose response carries a license has swapped in a record with
\* the status of that license.
C16_Witness ==
    \E c \in Calls :
        /\ pc[c] = "write"
        /\ response[c] # Null
        /\ ~data[c].unauthorizedFlagUsage
        /\ data[c].derivedStatus = response[c].data.status

\* A record with no license has derivedStatus NOT_FOUND.
NotFoundWhenAbsent(rec) ==
    (rec # Null /\ rec.license = Null) => rec.derivedStatus = "NOT_FOUND"

StartBegins(c) == pc[c] = "idle" /\ ran'[c] # "none"

\* C18: the start() that runs the first cycle has registered its instance
\* when the cycle begins; the instance then stays registered, while the
\* cycle runs and after it has failed, so that getInstance() returns it and
\* every further start() returns at once.
C18_RegisteredBeforeFirstCycle ==
    [][/\ \A c \in Calls :
            (StartBegins(c) /\ ran'[c] = "cycle") =>
                /\ getInstance = 0
                /\ getInstance' # 0
                /\ getInstance' = inst'[c]
                /\ pc'[c] = "load"
       /\ getInstance # 0 => getInstance' = getInstance
       /\ \A c \in Calls :
            (StartBegins(c) /\ getInstance # 0) =>
                /\ ran'[c] = "skipped"
                /\ pc'[c] = "done"
                /\ outcome'[c] = "returned"
                /\ UNCHANGED <<instances, cachedLicense, file, netCalls>>
       /\ \A c \in Calls :
            (ran'[c] = "cycle" /\ InCycle(c)') => getInstance' = inst'[c]
      ]_vars

\* The first cycle could not reach the authority; getCachedLicense() was
\* called on the registered instance after it, and the start() called after
\* that has returned at once.
C18_Witness ==
    /\ ran[1] = "cycle"
    /\ after.cycle = "fallback"
    /\ after.kind = "start"
    /\ ran[NCalls] = "skipped"
    /\ getInstance = 1

\* C20: the record in a memory slot never gives way to no record or to one
\* with an earlier lastChecked, and getCachedLicense() never returns a
\* record with an earlier lastChecked than one it returned before.
C20_MemoryNeverGoesBack ==
    [][/\ \A i \in Calls :
            cachedLicense[i] # Null =>
                /\ cachedLicense'[i] # Null
                /\ cachedLicense'[i].lastChecked >=
                       cachedLicense[i].lastChecked
       /\ (result # Null /\ result' # Null) =>
            result'.lastChecked >= result.lastChecked
      ]_vars

\* No cycle is in progress.
Quiescent == \A c \in Calls : ~InCycle(c)

\* C19: when no cycle is in progress, one has run and no write of the file
\* has failed, the file holds the record that is in the memory slot.
C19_MemoryIsFileAtQuiescence ==
    (Quiescent /\ getInstance # 0 /\ ~writeFailed) =>
        /\ cachedLicense[client] # Null
        /\ loadFromFileResult(file) = cachedLicense[client]

====
